---- MODULE Spec2Model ----
(***************************************************************************)
(* Model of the web content QA system: the chunk log (src/storage.py),     *)
(* the FAISS index and its metadata (src/processor.py), the extraction of  *)
(* a batch (src/extractor.py), the retry loop of the answer generation     *)
(* (src/llm_api.py) and the asyncio program that drives them (main.py):    *)
(* the menu loop, the background ingestion tasks and the query path.       *)
(*                                                                         *)
(* The program runs on one asyncio event loop.  A coroutine keeps the loop *)
(* until it awaits something that is not ready; the variable loop names    *)
(* the coroutine that holds the event loop, and Suspends says at which     *)
(* awaits a coroutine gives it up.                                         *)
(***************************************************************************)
EXTENDS Integers, Sequences, FiniteSets, TLC

\* ---------------------------------------------------------------- bounds
MaxTasks == 2       \* ingestion tasks created over a whole behaviour
MaxFaults == 1      \* storage / embedding faults injected over a behaviour

\* ------------------------------------------------------ program constants
K == 3              \* k of the query path's search call

URLS == {1, 2}      \* the URLs the user may type
TaskIds == 1..MaxTasks
Queries == {1, 4}   \* embeddings of the questions the user may ask
\* what the user types at the URL prompt: one URL, or both
UrlLists == {<<u>> : u \in URLS} \cup {<<1, 2>>}
FetchResults == {"none", "blank", "page"}

\* who holds the event loop: nobody (it waits for an event), main(), or task t
IdleLoop == [co |-> "idle", id |-> 0]
MainCo == [co |-> "main", id |-> 0]
TaskCo(t) == [co |-> "task", id |-> t]

\* ------------------------------------------------------------- storage.py
NoFile == [st |-> "absent", data |-> <<>>]
CorruptFile == [st |-> "corrupt", data |-> <<>>]
OkFile(d) == [st |-> "ok", data |-> d]

\* json.dumps(chunk) + '\n': one line of the chunk log
Dumps(chunk) == [kind |-> "json", url |-> chunk.url, content |-> chunk.content]
\* a record cut short by a write that failed part-way
TornLine(chunk) == [kind |-> "torn", url |-> chunk.url, content |-> 0]
\* json.loads(line), for a line that parses
Loads(line) == [url |-> line.url, content |-> line.content]
Parses(line) == line.kind = "json"

NoFault == [kind |-> "none", keep |-> 0, torn |-> FALSE]
\* the ways open()/write() of the chunk log can fail for a list of n chunks:
\* open fails (file untouched), or the file was truncated by open and the
\* write stops after keep whole lines, perhaps inside the next one
SaveFaults(n) ==
    {[kind |-> "open", keep |-> 0, torn |-> FALSE]}
    \cup {[kind |-> "partial", keep |-> j, torn |-> b] : j \in 0..(n - 1), b \in BOOLEAN}

\* the file opened with "a" instead of "w"
SaveChunksAppending(file, chunks, fault) ==
    OkFile(file.data \o [i \in 1..Len(chunks) |-> Dumps(chunks[i])])

SaveChunks(file, chunks, fault) ==
    LET lines == [i \in 1..Len(chunks) |-> Dumps(chunks[i])]
    IN CASE fault.kind = "none" -> OkFile(lines)
         [] fault.kind = "open" -> file
         [] OTHER ->
              OkFile(SubSeq(lines, 1, fault.keep)
                     \o (IF fault.torn /\ fault.keep < Len(chunks)
                         THEN <<TornLine(chunks[fault.keep + 1])>> ELSE <<>>))

LoadChunks(file) ==
    IF file.st = "absent" THEN <<>>
    ELSE IF \E i \in 1..Len(file.data) : ~Parses(file.data[i]) THEN <<>>
    ELSE [i \in 1..Len(file.data) |-> Loads(file.data[i])]

\* ----------------------------------------------------------- extractor.py
\* the text extract_text_from_html gives for what fetch_url returned
\* (0 is the empty string; a page's text is identified with its URL)
ExtractText(url, html) == IF html = "page" THEN url ELSE 0

\* the extraction without the test of line 97
ExtractContentKeepingEmpty(urls, htmls) ==
    LET F[i \in 0..Len(urls)] ==
          IF i = 0 THEN <<>>
          ELSE IF htmls[i] # "none"
               THEN Append(F[i - 1], [url |-> urls[i],
                                      content |-> ExtractText(urls[i], htmls[i])])
               ELSE F[i - 1]
    IN F[Len(urls)]

ExtractContent(urls, htmls) ==
    LET F[i \in 0..Len(urls)] ==
          IF i = 0 THEN <<>>
          ELSE IF htmls[i] # "none" /\ ExtractText(urls[i], htmls[i]) # 0
               THEN Append(F[i - 1], [url |-> urls[i],
                                      content |-> ExtractText(urls[i], htmls[i])])
               ELSE F[i - 1]
    IN F[Len(urls)]

\* ----------------------------------------------------------- processor.py
NoIndex == [loaded |-> FALSE, vecs |-> <<>>]
Index(v) == [loaded |-> TRUE, vecs |-> v]
Ntotal(ix) == Len(ix.vecs)

Embed(content) == 3 * content
GenerateEmbeddings(chunks) == [i \in 1..Len(chunks) |-> Embed(chunks[i].content)]

RebuildFaults == {"embed", "add", "write_index_open", "write_index_partial",
                  "meta_open", "meta_partial"}

\* the rebuild without the test of line 86
CreateAndSaveIndexOfAnything(d, chunks, f) ==
    LET built == Index(GenerateEmbeddings(chunks))
    IN [d EXCEPT !.index = built, !.indexFile = OkFile(built.vecs),
                 !.metaFile = OkFile(chunks), !.chunks = chunks,
                 !.raised = FALSE]

\* create_and_save_index(chunks) on the processor/disk state d under the
\* fault f ("none" or one of RebuildFaults); raised: an exception left the call
CreateAndSaveIndex(d, chunks, f) ==
    LET built == Index(GenerateEmbeddings(chunks))
    IN IF chunks = <<>> THEN [d EXCEPT !.raised = FALSE]
       ELSE CASE f = "embed" -> [d EXCEPT !.raised = TRUE]
              [] f = "add" -> [d EXCEPT !.index = Index(<<>>), !.raised = TRUE]
              [] f = "write_index_open" ->
                   [d EXCEPT !.index = built, !.raised = TRUE]
              [] f = "write_index_partial" ->
                   [d EXCEPT !.index = built, !.indexFile = CorruptFile,
                             !.raised = TRUE]
              [] f = "meta_open" ->
                   [d EXCEPT !.index = built, !.indexFile = OkFile(built.vecs),
                             !.chunks = chunks, !.raised = FALSE]
              [] f = "meta_partial" ->
                   [d EXCEPT !.index = built, !.indexFile = OkFile(built.vecs),
                             !.metaFile = CorruptFile,
                             !.chunks = chunks, !.raised = FALSE]
              [] OTHER ->
                   [d EXCEPT !.index = built, !.indexFile = OkFile(built.vecs),
                             !.metaFile = OkFile(chunks),
                             !.chunks = chunks, !.raised = FALSE]

\* load_index(): raised carries the return value (TRUE = returned False)
LoadIndex(d) ==
    IF d.indexFile.st = "absent" \/ d.metaFile.st = "absent"
    THEN [d EXCEPT !.raised = TRUE]
    ELSE IF d.indexFile.st = "corrupt" THEN [d EXCEPT !.raised = TRUE]
    ELSE IF d.metaFile.st = "corrupt"
         THEN [d EXCEPT !.index = Index(d.indexFile.data), !.raised = TRUE]
    ELSE [d EXCEPT !.index = Index(d.indexFile.data),
                   !.chunks = d.metaFile.data, !.raised = FALSE]

\* faiss IndexFlatL2.search(q, k): the k nearest positions (0-based) by
\* ascending squared L2 distance, lower position first on a tie, padded with
\* the label -1 when the index holds fewer than k vectors
Dist(v, q) == (v - q) * (v - q)
Rank(vecs, q, i) ==
    Cardinality({j \in 1..Len(vecs) :
                   \/ Dist(vecs[j], q) < Dist(vecs[i], q)
                   \/ (Dist(vecs[j], q) = Dist(vecs[i], q) /\ j < i)})
FaissSearch(vecs, q, k) ==
    [r \in 1..k |->
        IF r <= Len(vecs)
        THEN (CHOOSE i \in 1..Len(vecs) : Rank(vecs, q, i) = r - 1) - 1
        ELSE -1]

\* chunks[i] of a Python list for a label that passed i < len(chunks)
PyItem(chunks, i) == IF i >= 0 THEN chunks[i + 1] ELSE chunks[Len(chunks) + i + 1]

\* a search that looks the hits up in the metadata file as it is on disk
SearchFromDisk(d, q, k, encodeFails) ==
    IF ~d.index.loaded THEN [raised |-> FALSE, results |-> <<>>]
    ELSE IF encodeFails THEN [raised |-> TRUE, results |-> <<>>]
    ELSE LET labels == FaissSearch(d.index.vecs, q, k)
             stored == d.metaFile.data
             F[r \in 0..k] ==
                 IF r = 0 THEN <<>>
                 ELSE IF labels[r] < Len(stored) /\ stored # <<>>
                      THEN Append(F[r - 1], PyItem(stored, labels[r]))
                      ELSE F[r - 1]
         IN [raised |-> FALSE, results |-> F[k]]

\* search(query_text, k): encodeFails is the failure of model.encode
Search(d, q, k, encodeFails) ==
    IF ~d.index.loaded THEN [raised |-> FALSE, results |-> <<>>]
    ELSE IF encodeFails THEN [raised |-> TRUE, results |-> <<>>]
    ELSE LET labels == FaissSearch(d.index.vecs, q, k)
             hit(r) == labels[r] < Len(d.chunks)
             F[r \in 0..k] ==
                 IF r = 0 THEN <<>>
                 ELSE IF hit(r) THEN Append(F[r - 1], PyItem(d.chunks, labels[r]))
                      ELSE F[r - 1]
         IN IF \E r \in 1..k : labels[r] < 0 /\ d.chunks = <<>>
            THEN [raised |-> TRUE, results |-> <<>>]   \* IndexError
            ELSE [raised |-> FALSE, results |-> F[k]]

\* ------------------------------------------------------------- llm_api.py
max_retries == 5
base_delay == 1

\* llm_api.py imports os, google.generativeai, logging and typing: the name
\* asyncio, used at lines 69 and 84, is not bound in the module
AsyncioImported == FALSE

\* what self.model.generate_content can do when it is called
ModelOutcomes == {"text", "empty", "blocked", "error"}

\* generate_answer at its entry: no failure yet, the model not called yet,
\* no delay waited, nothing returned
NoGen == [retries |-> 0, calls |-> 0, delay |-> 0, answer |-> ""]

\* one pass through the body of the while loop (lines 67-84) with the model
\* answering outcome, and the return after the loop (lines 86-87) when the
\* pass was the last one.  Without the name asyncio, line 69 raises
\* NameError before the model is called; the handler of line 79 counts it
\* and computes the delay, and its own line 84 raises NameError again, which
\* the outer handler (lines 89-91) turns into the "unexpected error" answer.
Attempt(g, outcome) ==
    LET failed == [g EXCEPT !.retries = @ + 1,
                            !.delay = base_delay * 2 ^ (g.retries + 1)]
    IN IF ~AsyncioImported THEN [failed EXCEPT !.answer = "unexpected"]
       ELSE CASE outcome = "text" -> [g EXCEPT !.calls = @ + 1, !.answer = "text"]
              [] outcome = "empty" -> [g EXCEPT !.calls = @ + 1, !.answer = "empty"]
              [] outcome = "blocked" -> [g EXCEPT !.calls = @ + 1, !.answer = "blocked"]
              [] OTHER ->
                   [failed EXCEPT !.calls = @ + 1,
                                  !.answer = IF failed.retries < max_retries
                                             THEN "" ELSE "exhausted"]

\* ================================================================ main.py
VARIABLES
    logFile,      \* data/chunks.jsonl
    indexFile,    \* data/index.faiss
    metaFile,     \* data/chunks_with_metadata.json
    dp_index,     \* data_processor.index
    dp_chunks,    \* data_processor.chunks
    all_chunks,   \* the global all_chunks
    mpc,          \* where main() is
    qv,           \* embedding of the question being handled
    results,      \* relevant_chunks of the query being handled
    tasks,        \* the tasks made by asyncio.create_task
    loop,         \* the coroutine that holds the event loop
    faults,       \* faults injected so far
    gen,          \* the generate_answer call in progress
    llm_client    \* the global llm_client is set (not None)

vars == <<logFile, indexFile, metaFile, dp_index, dp_chunks, all_chunks,
          mpc, qv, results, tasks, loop, faults, gen, llm_client>>

disk == <<logFile, indexFile, metaFile>>
processor == <<dp_index, dp_chunks>>

\* an await gives up the event loop only when what it awaits is not ready:
\* the network (extract), the executor thread of input() (input) and the
\* thread of the model call (llm).  load_chunks and save_chunks are
\* coroutines without an await of their own, so awaiting them runs them
\* inline.
SuspendsEveryAwait(point) == TRUE
Suspends(point) == point \in {"extract", "input", "llm"}

\* line 42: the batch is merged only when extraction produced something
IngestsAlways(batch) == TRUE
Ingests(batch) == batch # <<>>

\* lines 86 and 164: there is nothing to query
KnowledgeBaseEmptyWhenNoChunks(chunks, ix) == chunks = <<>>
KnowledgeBaseEmpty(chunks, ix) == chunks = <<>> \/ ~ix.loaded

\* line 79: the index is missing, or its size is not that of all_chunks
OutOfSyncWhenMissing(ix, chunks) == ~ix.loaded
OutOfSync(ix, chunks) == ~ix.loaded \/ Ntotal(ix) # Len(chunks)

After(co, point) == IF Suspends(point) THEN IdleLoop ELSE co
Holds(co) == loop = co \/ loop = IdleLoop

NoTask == [pc |-> "unused", urls |-> <<>>, batch |-> <<>>, cur |-> <<>>,
           overlap |-> {}, saveFault |-> FALSE, outcome |-> ""]
LivePcs == {"extract", "load", "save", "publish"}
Live(t) == tasks[t].pc \in LivePcs

\* the processor and its two files, as CreateAndSaveIndex and LoadIndex take them
DP == [index |-> dp_index, chunks |-> dp_chunks,
       indexFile |-> indexFile, metaFile |-> metaFile, raised |-> FALSE]

SetDP(d) ==
    /\ dp_index' = d.index
    /\ dp_chunks' = d.chunks
    /\ indexFile' = d.indexFile
    /\ metaFile' = d.metaFile

\* What is remembered of a finished task: its outcome, and its batch for as
\* long as a task it ran concurrently with is still pending.
Concurrent(ts, u, v) == u \in ts[v].overlap \/ v \in ts[u].overlap
Finished(ts) ==
    [u \in TaskIds |->
        IF ts[u].pc = "done"
           /\ ~\E v \in TaskIds : ts[v].pc \in LivePcs /\ Concurrent(ts, u, v)
        THEN [NoTask EXCEPT !.pc = "done", !.outcome = ts[u].outcome]
        ELSE ts[u]]

\* asyncio.run ends: the tasks still pending are cancelled
Cancelled ==
    Finished([t \in TaskIds |->
                IF Live(t) THEN [tasks[t] EXCEPT !.pc = "done", !.outcome = "cancelled"]
                ELSE tasks[t]])

Init ==
    /\ logFile = NoFile
    /\ indexFile = NoFile
    /\ metaFile = NoFile
    /\ dp_index = NoIndex
    /\ dp_chunks = <<>>
    /\ all_chunks = <<>>
    /\ mpc = "start"
    /\ qv = 0
    /\ results = <<>>
    /\ tasks = [t \in TaskIds |-> NoTask]
    /\ loop = IdleLoop
    /\ faults = 0
    /\ gen = NoGen
    /\ llm_client = FALSE

\* main(), lines 127-135: load the chunks and try to load the index
M_Start ==
    /\ mpc = "start"
    /\ loop = IdleLoop
    /\ all_chunks' = LoadChunks(logFile)
    /\ SetDP(LoadIndex(DP))
    /\ mpc' = "menu"
    /\ UNCHANGED <<gen, llm_client>>
    /\ UNCHANGED <<logFile, qv, results, tasks, loop, faults>>

\* choice 1: read the URLs and schedule _process_urls_in_background; main
\* then waits for input, so the new task runs up to its await of the fetches
M_Add ==
    /\ mpc = "menu"
    /\ loop = IdleLoop
    /\ \E t \in TaskIds, urls \in UrlLists :
         /\ tasks[t].pc = "unused"
         /\ \A u \in TaskIds : u < t => tasks[u].pc # "unused"
         /\ tasks' = [tasks EXCEPT ![t] =
                        [NoTask EXCEPT !.pc = "extract", !.urls = urls,
                                       !.overlap = {u \in TaskIds : Live(u)}]]
    /\ UNCHANGED <<gen, llm_client>>
    /\ UNCHANGED <<disk, processor, all_chunks, mpc, qv, results, loop,
                   faults>>

\* choice 2, lines 162-169: the menu's own emptiness check, then the prompt
M_Ask ==
    /\ mpc = "menu"
    /\ loop = IdleLoop
    /\ ~KnowledgeBaseEmpty(all_chunks, dp_index)
    /\ mpc' = "ask"
    /\ UNCHANGED <<gen, llm_client>>
    /\ UNCHANGED <<disk, processor, all_chunks, qv, results, tasks, loop,
                   faults>>

\* choice 2, lines 164-166: the knowledge base is empty, the message is printed
M_AskEmpty ==
    /\ mpc = "menu"
    /\ loop = IdleLoop
    /\ KnowledgeBaseEmpty(all_chunks, dp_index)
    /\ mpc' = "empty"
    /\ loop' = MainCo
    /\ UNCHANGED <<gen, llm_client>>
    /\ UNCHANGED <<disk, processor, all_chunks, qv, results, tasks, faults>>

\* after the "knowledge base is empty" message (lines 87-88, 165-166) or the
\* "No relevant information" message (lines 117-118) or the message about the
\* API key (lines 94-96): back to the menu prompt
M_Return ==
    /\ mpc \in {"empty", "nothing", "nokey"}
    /\ Holds(MainCo)
    /\ mpc' = "menu"
    /\ loop' = IdleLoop
    /\ UNCHANGED <<gen, llm_client>>
    /\ UNCHANGED <<disk, processor, all_chunks, qv, results, tasks, faults>>

\* lines 170-172: an empty question returns to the menu
M_NoQuestion ==
    /\ mpc = "ask"
    /\ loop = IdleLoop
    /\ mpc' = "menu"
    /\ UNCHANGED <<gen, llm_client>>
    /\ UNCHANGED <<disk, processor, all_chunks, qv, results, tasks, loop,
                   faults>>

\* handle_question_answering, line 74: reload all_chunks from the log
M_Question ==
    /\ mpc = "ask"
    /\ loop = IdleLoop
    /\ \E q \in Queries : qv' = q
    /\ all_chunks' = LoadChunks(logFile)
    /\ mpc' = "sync"
    /\ loop' = After(MainCo, "load_chunks")
    /\ UNCHANGED <<gen, llm_client>>
    /\ UNCHANGED <<disk, processor, results, tasks, faults>>

\* an exception leaves main(): the program ends
Crash ==
    /\ mpc' = "crashed"
    /\ tasks' = Cancelled
    /\ loop' = IdleLoop
    /\ qv' = 0
    /\ results' = <<>>
    /\ llm_client' = FALSE

\* handle_question_answering, lines 79-88: rebuild and reload when the index
\* is missing or its size differs, then the emptiness check
M_Sync ==
    /\ mpc = "sync"
    /\ Holds(MainCo)
    /\ IF OutOfSync(dp_index, all_chunks)
       THEN \E f \in {"none"} \cup (IF faults < MaxFaults /\ all_chunks # <<>>
                                    THEN RebuildFaults ELSE {}) :
              LET built == CreateAndSaveIndex(DP, all_chunks, f)
                  d == IF built.raised THEN built ELSE LoadIndex(built)
              IN /\ SetDP(d)
                 /\ faults' = IF f = "none" THEN faults ELSE faults + 1
                 /\ IF built.raised
                    THEN Crash
                    ELSE IF KnowledgeBaseEmpty(all_chunks, d.index)
                         THEN /\ mpc' = "empty"
                              /\ loop' = MainCo
                              /\ qv' = 0
                              /\ UNCHANGED <<results, tasks, llm_client>>
                         ELSE /\ mpc' = "search"
                              /\ loop' = MainCo
                              /\ UNCHANGED <<qv, results, tasks, llm_client>>
       ELSE /\ IF KnowledgeBaseEmpty(all_chunks, dp_index)
               THEN mpc' = "empty" /\ loop' = MainCo /\ qv' = 0
               ELSE mpc' = "search" /\ loop' = MainCo /\ qv' = qv
            /\ UNCHANGED <<indexFile, metaFile, processor, results, tasks, faults,
                           llm_client>>
    /\ UNCHANGED gen
    /\ UNCHANGED <<logFile, all_chunks>>

\* lines 90-118: the client of the model is made on the first query that
\* gets here (GeminiLLM() raises ValueError when GEMINI_API_KEY is not set,
\* and the query ends with that message); then the search, and the answer
\* is generated when something was found
M_Search ==
    /\ mpc = "search"
    /\ Holds(MainCo)
    /\ \E keySet \in (IF llm_client THEN {TRUE} ELSE BOOLEAN) :
         IF ~keySet
         THEN /\ mpc' = "nokey"
              /\ loop' = MainCo
              /\ qv' = 0
              /\ UNCHANGED <<results, tasks, faults, llm_client>>
         ELSE /\ \E encodeFails \in {FALSE} \cup (IF faults < MaxFaults THEN {TRUE} ELSE {}) :
                   LET r == Search(DP, qv, K, encodeFails)
                   IN /\ faults' = IF encodeFails THEN faults + 1 ELSE faults
                      /\ IF r.raised
                         THEN Crash
                         ELSE /\ results' = r.results
                              /\ llm_client' = TRUE
                              /\ mpc' = IF r.results # <<>> THEN "llm" ELSE "nothing"
                              /\ loop' = MainCo
                              /\ qv' = IF r.results # <<>> THEN qv ELSE 0
                              /\ UNCHANGED tasks
    /\ gen' = NoGen
    /\ UNCHANGED <<disk, processor, all_chunks>>

\* line 104, llm_api.py 67-87: generate_answer goes once through its loop;
\* it gives up the event loop only if it gets as far as the model call
M_GenerateAnswer ==
    /\ mpc = "llm"
    /\ Holds(MainCo)
    /\ gen.answer = ""
    /\ \E outcome \in ModelOutcomes : gen' = Attempt(gen, outcome)
    /\ loop' = IF AsyncioImported THEN After(MainCo, "llm") ELSE MainCo
    /\ UNCHANGED <<disk, processor, all_chunks, mpc, qv, results, tasks, faults,
                   llm_client>>

\* lines 104-114: generate_answer returned, the answer and sources are printed
M_Answer ==
    /\ mpc = "llm"
    /\ Holds(MainCo)
    /\ gen.answer # ""
    /\ mpc' = "menu"
    /\ qv' = 0
    /\ results' = <<>>
    /\ gen' = NoGen
    /\ loop' = IdleLoop
    /\ UNCHANGED <<disk, processor, all_chunks, tasks, faults, llm_client>>

\* choice 3
M_Exit ==
    /\ mpc = "menu"
    /\ loop = IdleLoop
    /\ mpc' = "exited"
    /\ tasks' = Cancelled
    /\ llm_client' = FALSE
    /\ UNCHANGED gen
    /\ UNCHANGED <<disk, processor, all_chunks, qv, results, loop, faults>>

\* the program is run again: fresh module globals, the files as they were left
Restart ==
    /\ mpc \in {"exited", "crashed"}
    /\ dp_index' = NoIndex
    /\ dp_chunks' = <<>>
    /\ all_chunks' = <<>>
    /\ mpc' = "start"
    /\ qv' = 0
    /\ results' = <<>>
    /\ loop' = IdleLoop
    /\ gen' = NoGen
    /\ llm_client' = FALSE
    /\ UNCHANGED <<disk, tasks, faults>>

\* ------------------------------------------- _process_urls_in_background
\* the fetches are over: extract_content_from_urls returns the batch
\* (lines 40-42, 60-61)
T_Extracted(t) ==
    /\ tasks[t].pc = "extract"
    /\ Holds(TaskCo(t))
    /\ \E htmls \in [1..Len(tasks[t].urls) -> FetchResults] :
         LET batch == ExtractContent(tasks[t].urls, htmls)
         IN IF Ingests(batch)
            THEN /\ tasks' = [tasks EXCEPT ![t].pc = "load", ![t].urls = <<>>,
                                           ![t].batch = batch]
                 /\ loop' = TaskCo(t)
            ELSE /\ tasks' = Finished([tasks EXCEPT ![t].pc = "done", ![t].urls = <<>>,
                                                    ![t].outcome = "warning"])
                 /\ loop' = IdleLoop
    /\ UNCHANGED <<gen, llm_client>>
    /\ UNCHANGED <<disk, processor, all_chunks, mpc, qv, results, faults>>

\* lines 46-48: reload the log and extend it with the batch
T_Load(t) ==
    /\ tasks[t].pc = "load"
    /\ Holds(TaskCo(t))
    /\ tasks' = [tasks EXCEPT ![t].pc = "save",
                              ![t].cur = LoadChunks(logFile) \o tasks[t].batch]
    /\ loop' = After(TaskCo(t), "load_chunks")
    /\ UNCHANGED <<gen, llm_client>>
    /\ UNCHANGED <<disk, processor, all_chunks, mpc, qv, results, faults>>

\* line 49: save_chunks(current_disk_chunks); a failure is logged inside it
T_Save(t) ==
    /\ tasks[t].pc = "save"
    /\ Holds(TaskCo(t))
    /\ \E fault \in {NoFault} \cup (IF faults < MaxFaults
                                    THEN SaveFaults(Len(tasks[t].cur)) ELSE {}) :
         /\ logFile' = SaveChunks(logFile, tasks[t].cur, fault)
         /\ faults' = IF fault = NoFault THEN faults ELSE faults + 1
         /\ tasks' = [tasks EXCEPT ![t].pc = "publish",
                                   ![t].saveFault = (fault # NoFault)]
    /\ loop' = After(TaskCo(t), "save_chunks")
    /\ UNCHANGED <<gen, llm_client>>
    /\ UNCHANGED <<indexFile, metaFile, processor, all_chunks, mpc, qv, results>>

\* lines 53-58: publish all_chunks and rebuild the index over it
T_Rebuild(t) ==
    /\ tasks[t].pc = "publish"
    /\ Holds(TaskCo(t))
    /\ all_chunks' = tasks[t].cur
    /\ \E f \in {"none"} \cup (IF faults < MaxFaults THEN RebuildFaults ELSE {}) :
         LET d == CreateAndSaveIndex(DP, tasks[t].cur, f)
         IN /\ SetDP(d)
            /\ faults' = IF f = "none" THEN faults ELSE faults + 1
            /\ tasks' = Finished([tasks EXCEPT
                            ![t].pc = "done", ![t].cur = <<>>,
                            ![t].outcome = IF d.raised THEN "raised" ELSE "ok"])
    /\ loop' = IdleLoop
    /\ UNCHANGED <<gen, llm_client>>
    /\ UNCHANGED <<logFile, mpc, qv, results>>

T_ExtractedAny == \E t \in TaskIds : T_Extracted(t)
T_LoadAny == \E t \in TaskIds : T_Load(t)
T_SaveAny == \E t \in TaskIds : T_Save(t)
T_RebuildAny == \E t \in TaskIds : T_Rebuild(t)

Next ==
    \/ M_Start
    \/ M_Add
    \/ M_Ask
    \/ M_AskEmpty
    \/ M_Return
    \/ M_NoQuestion
    \/ M_Question
    \/ M_Sync
    \/ M_Search
    \/ M_GenerateAnswer
    \/ M_Answer
    \/ M_Exit
    \/ Restart
    \/ T_ExtractedAny
    \/ T_LoadAny
    \/ T_SaveAny
    \/ T_RebuildAny

Spec == Init /\ [][Next]_vars

\* ================================================================ claims
Count(seq, x) == Cardinality({i \in 1..Len(seq) : seq[i] = x})
Min(a, b) == IF a < b THEN a ELSE b
\* the well-formed records of the chunk log, in file order, as chunks
Persisted ==
    LET good == SelectSeq(logFile.data, Parses)
    IN [i \in 1..Len(good) |-> Loads(good[i])]
PersistedAfter ==
    LET good == SelectSeq(logFile'.data, Parses)
    IN [i \in 1..Len(good) |-> Loads(good[i])]
\* the ingestion ran to its end with a batch to merge
Completed(t) == tasks[t].pc = "done" /\ tasks[t].outcome \in {"ok", "raised"}
\* task t is between its reload of the log and the end of its rebuild
InMerge(t) == tasks[t].pc \in {"save", "publish"}

\* C1: when the second of two ingestion tasks that ran concurrently (both
\* scheduled before either finished) completes, both having had a non-empty
\* batch, the persisted log holds every chunk of both batches.
C1_NoLostUpdate ==
    [][\A t1, t2 \in TaskIds :
         (/\ Concurrent(tasks, t1, t2)
          /\ Completed(t1)
          /\ tasks[t2].pc = "publish" /\ tasks'[t2].pc = "done")
         => LET both == tasks[t1].batch \o tasks[t2].batch
            IN \A i \in 1..Len(both) :
                 Count(PersistedAfter, both[i])
                   >= Count(tasks[t1].batch, both[i]) + Count(tasks[t2].batch, both[i])]_vars

\* What does hold: as long as no fault has struck, no interleaving loses a
\* batch.
NoLostUpdateWithoutFaults ==
    [][\A t1, t2 \in TaskIds :
         (/\ Concurrent(tasks, t1, t2)
          /\ Completed(t1)
          /\ tasks[t2].pc = "publish" /\ tasks'[t2].pc = "done"
          /\ faults' = 0)
         => LET both == tasks[t1].batch \o tasks[t2].batch
            IN \A i \in 1..Len(both) :
                 Count(PersistedAfter, both[i])
                   >= Count(tasks[t1].batch, both[i]) + Count(tasks[t2].batch, both[i])]_vars

\* C2: at most one ingestion task is between its reload of the chunk log and
\* the end of its index rebuild.
C2_Serialized ==
    \A t1, t2 \in TaskIds : (InMerge(t1) /\ InMerge(t2)) => t1 = t2

\* one task is inside its merge while another one, scheduled earlier or
\* later, still waits for its fetches
C2_Witness ==
    \E t1, t2 \in TaskIds :
        t1 # t2 /\ InMerge(t1) /\ tasks[t2].pc = "extract"

\* C3: whenever a query is about to execute search, the in-memory index
\* has as many vectors as the chunk list it is paired with has chunks.
C3_SnapshotConsistent ==
    mpc = "search" => (dp_index.loaded /\ Ntotal(dp_index) = Len(dp_chunks))

\* C4: a create_and_save_index call of an ingestion that returns normally
\* leaves the in-memory index, the paired chunk list and both persisted
\* artifacts describing exactly the chunks it was given.
C4_SizeInvariant ==
    [][\A t \in TaskIds :
         (tasks[t].pc = "publish" /\ tasks'[t].outcome = "ok")
         => /\ dp_index'.loaded
            /\ Ntotal(dp_index') = Len(tasks[t].cur)
            /\ dp_chunks' = tasks[t].cur
            /\ indexFile'.st = "ok" /\ Len(indexFile'.data) = Len(tasks[t].cur)
            /\ metaFile'.st = "ok" /\ Len(metaFile'.data) = Len(tasks[t].cur)]_vars

\* C5: a create_and_save_index call that fails leaves the in-memory index,
\* the paired chunk list and both persisted artifacts as they were.
C5_AllOrNothing ==
    [][\A t \in TaskIds :
         (tasks[t].pc = "publish" /\ tasks'[t].outcome = "raised")
         => UNCHANGED <<dp_index, dp_chunks, indexFile, metaFile>>]_vars

\* C6: an ingestion whose save_chunks could not write the log ends with the
\* failure reported and without touching the index or its artifacts.
C6_SaveFailureAborts ==
    [][\A t \in TaskIds :
         (tasks[t].pc = "publish" /\ tasks[t].saveFault /\ tasks'[t].pc = "done")
         => /\ tasks'[t].outcome = "raised"
            /\ UNCHANGED <<dp_index, dp_chunks, indexFile, metaFile>>]_vars

\* C7: an ingestion whose write of the log succeeds leaves the log holding
\* the chunks persisted before it, in order, followed by its batch.
C7_AppendOnly ==
    [][\A t \in TaskIds :
         (tasks[t].pc = "save" /\ tasks'[t].pc = "publish" /\ ~tasks'[t].saveFault)
         => PersistedAfter = Persisted \o tasks[t].batch]_vars

\* C8: load_chunks returns the well-formed records of the log in order,
\* skipping a line that does not parse.
C8_LoadSkipsMalformed ==
    [][\A t \in TaskIds :
         (tasks[t].pc = "load" /\ tasks'[t].pc = "save")
         => tasks'[t].cur = Persisted \o tasks[t].batch]_vars

\* C9: search returns min(k, n) results for an index of n chunks, ordered by
\* ascending distance, and for k > n each indexed chunk exactly once.
C9_KClamping ==
    mpc = "llm" =>
        LET n == Ntotal(dp_index)
        IN /\ Len(results) = Min(K, n)
           /\ \A i, j \in 1..Len(results) :
                i < j => Dist(Embed(results[i].content), qv)
                           <= Dist(Embed(results[j].content), qv)
           /\ K > n => \A i \in 1..Len(dp_chunks) :
                         Count(results, dp_chunks[i]) = Count(dp_chunks, dp_chunks[i])

\* C10: an ingestion whose extraction yields no chunk changes neither the
\* log, nor the index artifacts, nor the in-memory index and chunk list,
\* nor all_chunks, and ends with the warning.
C10_EmptyBatchNoOp ==
    [][\A t \in TaskIds :
         (/\ tasks'[t] # tasks[t]
          /\ tasks'[t].outcome # "cancelled"
          /\ \/ tasks[t].pc = "extract" /\ tasks'[t].batch = <<>>
             \/ tasks[t].pc \in {"load", "save", "publish"} /\ tasks[t].batch = <<>>)
         => /\ UNCHANGED <<logFile, indexFile, metaFile, dp_index, dp_chunks,
                           all_chunks>>
            /\ tasks'[t].pc = "done" => tasks'[t].outcome = "warning"]_vars

\* an ingestion ended with the warning while a store and an index exist
C10_Witness ==
    \E t \in TaskIds :
        /\ tasks[t].pc = "done" /\ tasks[t].outcome = "warning"
        /\ Persisted # <<>> /\ dp_index.loaded /\ indexFile.st = "ok"

\* C11: a search runs only on an index of the size of the chunk log as the
\* query loaded it, and an index found with another size was rebuilt over
\* all the chunks of the log before the search.
C11_StaleNeverServed ==
    [][mpc' = "search"
       => /\ dp_index'.loaded
          /\ Ntotal(dp_index') = Len(PersistedAfter)
          /\ all_chunks' = PersistedAfter
          /\ (dp_index.loaded /\ Ntotal(dp_index) # Len(all_chunks))
               => dp_index'.vecs = GenerateEmbeddings(PersistedAfter)]_vars

\* a query has loaded the log and finds a loaded index that is too short
C11_Witness ==
    /\ mpc = "sync"
    /\ dp_index.loaded
    /\ all_chunks # <<>>
    /\ Ntotal(dp_index) < Len(all_chunks)

\* C12: load_index returns False and installs no index when the index file
\* or the chunk-list file is missing, or when the stored index and the
\* stored chunk list differ in size; when it returns True the index and the
\* chunk list it installed have the same size.
C12_LoadIndexValidPair ==
    [][(mpc = "start" /\ mpc' = "menu")
       => LET r == LoadIndex(DP)
              missing == indexFile.st = "absent" \/ metaFile.st = "absent"
              differ == /\ indexFile.st = "ok" /\ metaFile.st = "ok"
                        /\ Len(indexFile.data) # Len(metaFile.data)
          IN /\ (missing \/ differ) => (r.raised /\ dp_index' = dp_index)
             /\ ~r.raised => Ntotal(dp_index') = Len(dp_chunks')]_vars

\* the step is task t's rebuild failing under one of the faults fs
RebuildFailsBy(t, fs) ==
    /\ tasks[t].pc = "publish"
    /\ tasks'[t].outcome = "raised"
    /\ \E f \in fs :
         LET d == CreateAndSaveIndex(DP, tasks[t].cur, f)
         IN /\ d.raised
            /\ <<dp_index', dp_chunks', indexFile', metaFile'>>
                 = <<d.index, d.chunks, d.indexFile, d.metaFile>>

\* C13: an ingestion changes no index before it has written the merged
\* sequence to the chunk log, and when its rebuild then fails at the
\* embedding or at the index build, the log holds the whole merged sequence
\* and the previous index is still in place.
C13_StoreFirstNoRollback ==
    [][\A t \in TaskIds :
         /\ (tasks[t].pc \in {"load", "save"} /\ tasks'[t] # tasks[t])
              => UNCHANGED <<dp_index, dp_chunks, indexFile, metaFile>>
         /\ RebuildFailsBy(t, {"embed", "add"})
              => /\ PersistedAfter = tasks[t].cur
                 /\ UNCHANGED <<dp_index, indexFile>>]_vars

\* C14: a query made while all_chunks is empty or no index is loaded, at the
\* menu or inside handle_question_answering, ends with the "knowledge base
\* is empty" message: no search, no call of generate_answer, no exception,
\* and the program is back at the menu.
C14_EmptyKnowledgeBase ==
    [][/\ (/\ \/ mpc = "menu" /\ mpc' \in {"ask", "empty"}
              \/ mpc = "sync"
           /\ (all_chunks = <<>> \/ ~dp_index.loaded))
          => mpc' = "empty" /\ results' = <<>>
       /\ mpc = "empty" => mpc' = "menu" /\ results' = <<>>]_vars

\* the message is printed inside handle_question_answering: the log loaded
\* as empty although an index is loaded
C14_Witness ==
    /\ mpc = "empty"
    /\ all_chunks = <<>>
    /\ dp_index.loaded
    /\ qv = 0
    /\ \E t \in TaskIds : tasks[t].outcome \in {"ok", "raised"}

\* C15: when the rebuild inside the query path fails, or the embedding of
\* the question fails, no exception leaves handle_question_answering: the
\* program goes on, and the failed search ends with the "no result" message.
C15_QueryFailuresDoNotRaise ==
    [][(mpc \in {"sync", "search"} /\ faults' # faults)
       => /\ mpc' # "crashed"
          /\ mpc = "search" => mpc' = "nothing"]_vars

C17_QueriesReadOnly ==
    [][(mpc \in {"ask", "sync", "search", "llm"} /\ mpc' # mpc /\ faults' = faults)
       => UNCHANGED <<logFile, indexFile, metaFile, dp_index, dp_chunks>>]_vars

\* the processor that holds the index ix and the chunk list chunks, and
\* nothing else
Snapshot(ix, chunks) ==
    [index |-> ix, chunks |-> chunks, indexFile |-> NoFile, metaFile |-> NoFile,
     raised |-> FALSE]

C19_NonEmptyContent ==
    /\ \A i \in 1..Len(Persisted) : Persisted[i].content # 0
    /\ \A t \in TaskIds :
         /\ \A i \in 1..Len(tasks[t].batch) : tasks[t].batch[i].content # 0
         /\ \A i \in 1..Len(tasks[t].cur) : tasks[t].cur[i].content # 0

\* one ingestion has stored its chunks, another one found nothing to keep
C19_Witness ==
    /\ Len(Persisted) >= 2
    /\ \E t \in TaskIds : tasks[t].pc = "done" /\ tasks[t].outcome = "warning"
    /\ \E t \in TaskIds : tasks[t].pc = "done" /\ tasks[t].outcome = "ok"

\* C20: create_and_save_index([]) leaves the in-memory index, the paired
\* chunk list and both index artifacts as they are, whatever else could
\* fail; when a query finds the log empty while an index that holds vectors
\* is loaded, the files stay as they were, nothing raises, and the
\* processor ends up as load_index alone leaves it.
C20_EmptyRebuildNoOp ==
    [][(/\ mpc = "sync" /\ mpc' # mpc
        /\ all_chunks = <<>> /\ dp_index.loaded /\ Ntotal(dp_index) # 0)
       => /\ \A f \in {"none"} \cup RebuildFaults :
               CreateAndSaveIndex(DP, all_chunks, f) = DP
          /\ UNCHANGED <<indexFile, metaFile>>
          /\ <<dp_index', dp_chunks'>> = <<LoadIndex(DP).index, LoadIndex(DP).chunks>>
          /\ mpc' = "empty"]_vars

\* a query has loaded an empty log while an index over some chunks is
\* loaded and both artifacts are on disk
C20_Witness ==
    /\ mpc = "sync"
    /\ all_chunks = <<>>
    /\ dp_index.loaded /\ Ntotal(dp_index) > 0 /\ dp_chunks # <<>>
    /\ indexFile.st = "ok" /\ metaFile.st = "ok"

\* C21: generate_answer calls the model at most max_retries times; it
\* returns at once on a text, an empty or a blocked response; every other
\* failure of a model call is counted and followed by a wait of
\* base_delay * 2^retries; the "could not get a response" answer is given
\* exactly after max_retries failures, and no other answer exists.
C21_RetryPolicy ==
    mpc = "llm" =>
        /\ gen.calls <= max_retries
        /\ gen.retries <= gen.calls
        /\ gen.answer \in {"", "text", "empty", "blocked", "exhausted"}
        /\ gen.answer = "exhausted" <=> gen.retries = max_retries
        /\ gen.answer \in {"text", "empty", "blocked"} => gen.calls = gen.retries + 1
        /\ gen.retries > 0 => gen.delay = base_delay * 2 ^ gen.retries

\* C22: a load_index that returns False, at start-up or in a query that
\* found the log empty, leaves the in-memory index and the paired chunk
\* list exactly as they were before the call.
C22_FailedLoadNoEffect ==
    [][(/\ \/ mpc = "start"
           \/ mpc = "sync" /\ all_chunks = <<>> /\ OutOfSync(dp_index, all_chunks)
        /\ mpc' # mpc
        /\ LoadIndex(DP).raised)
       => UNCHANGED <<dp_index, dp_chunks>>]_vars

\* C23: with a chunk log that loads non-empty and no index loaded, the
\* choice "ask a question" is not turned away: the program goes on to the
\* question, which is what leads to the rebuild and to the answer.
C23_RecoversOnQuery ==
    [][(/\ mpc = "menu" /\ mpc' \in {"ask", "empty"}
        /\ LoadChunks(logFile) # <<>>
        /\ all_chunks # <<>>
        /\ ~dp_index.loaded)
       => mpc' = "ask"]_vars

====
